---------------------------- MODULE Spec2Model ----------------------------
(***************************************************************************)
(* A model of src/server.ts: the start-up seeding of the in-memory         *)
(* document store, the similarity, the retrieval (embed, score, sort,      *)
(* slice, join), the /chat handler and the /chat-stream relay it           *)
(* registers.                                                              *)
(*                                                                         *)
(* Text is a sequence of one-character strings, so that concatenation,     *)
(* trimming and joining are computed and not assumed.  A state is taken    *)
(* between two turns of the event loop: every action is one synchronous    *)
(* run of the code from the settling of one awaited promise (or the        *)
(* arrival of one request) to the next await.                              *)
(***************************************************************************)
EXTENDS Integers, Sequences, FiniteSets, TLC

\* ------------------------------------------------------------------ bounds

\* Number of requests the clients send during a run.
MaxReqs == 2

\* Number of chunks a remote completion stream emits at most.
MaxChunks == 3

Reqs == 1..MaxReqs

\* ------------------------------------------------------------------- text

NL == "\n"

\* The three seed texts of seedDocuments, each cut to its first word's
\* initial letters (the code never looks inside a text).
texts ==
  << <<"R", "E">>, <<"A", "W">>, <<"E", "x">> >>

\* "Answer using the context below.\n\n", cut to its first letter and the
\* two line breaks that end it.
Instruction == <<"A", NL, NL>>

\* "You are a helpful assistant.", cut to its first letter.
StreamInstruction == <<"Y">>

\* Array.prototype.join on an array of texts.
RECURSIVE Join(_, _)
Join(parts, sep) ==
  IF Len(parts) = 0 THEN <<>>
  ELSE IF Len(parts) = 1 THEN parts[1]
  ELSE parts[1] \o sep \o Join(Tail(parts), sep)

\* Slice with its start one too far, as slice(start + 1, end) would be.
SliceFromOne(arr, start, end) ==
  LET hi == IF end < Len(arr) THEN end ELSE Len(arr)
  IN  IF start + 1 >= hi THEN <<>> ELSE SubSeq(arr, start + 2, hi)

\* Array.prototype.slice(start, end) for 0 <= start <= end.
Slice(arr, start, end) ==
  LET hi == IF end < Len(arr) THEN end ELSE Len(arr)
  IN  IF start >= hi THEN <<>> ELSE SubSeq(arr, start + 1, hi)

IsSpace(c) == c \in {" ", NL}

RECURSIVE TrimStart(_)
TrimStart(s) ==
  IF Len(s) > 0 /\ IsSpace(s[1]) THEN TrimStart(Tail(s)) ELSE s

RECURSIVE TrimEnd(_)
TrimEnd(s) ==
  IF Len(s) > 0 /\ IsSpace(s[Len(s)])
  THEN TrimEnd(SubSeq(s, 1, Len(s) - 1)) ELSE s

\* String.prototype.trim
Trim(s) == TrimEnd(TrimStart(s))

\* ---------------------------------------------------------------- vectors

\* The embeddings the remote capability answers the server with: two
\* directions of one dimensionality, so that a query ranks the documents
\* one way or the other.  (RankSpec below draws from a wider set, the zero
\* vector included.)
Vectors == { <<1, 0>>, <<0, 1>> }

\* A JavaScript number as cosineSimilarity produces it: NaN, or the real
\* num / sqrt(den) with den > 0.
NaN == [nan |-> TRUE, num |-> 0, den |-> 1]

RECURSIVE SumTo(_, _)
SumTo(f, n) == IF n = 0 THEN 0 ELSE f[n] + SumTo(f, n - 1)

cosineSimilarity(a, b) ==
  LET n    == Len(a)
      \* b[i] is undefined past the end of b, and a[i] * undefined is NaN
      short == Len(b) < n
      dot  == SumTo([i \in 1..n |-> IF i <= Len(b) THEN a[i] * b[i] ELSE 0], n)
      magA == SumTo([i \in 1..n |-> a[i] * a[i]], n)
      magB == SumTo([i \in 1..n |-> IF i <= Len(b) THEN b[i] * b[i] ELSE 0], n)
  IN  IF short \/ magA * magB = 0
      THEN NaN
      ELSE [nan |-> FALSE, num |-> dot, den |-> magA * magB]

\* n * |n|: the order of x.num / sqrt(x.den) is the order of SgnSq(num) / den
SgnSq(n) == IF n < 0 THEN -(n * n) ELSE n * n

\* x < y on numbers; false when either is NaN
NumLess(x, y) ==
  /\ ~x.nan
  /\ ~y.nan
  /\ SgnSq(x.num) * y.den < SgnSq(y.num) * x.den

\* The comparator (a, b) => b.score - a.score as Array.prototype.sort reads
\* it: its sign, with NaN read as +0.
CompareScore(a, b) ==
  IF NumLess(b.score, a.score) THEN -1
  ELSE IF NumLess(a.score, b.score) THEN 1
  ELSE 0

\* --------------------------------------------------------------- ranking

\* The 2 of scored.slice(0, 2).
TopK == 2

\* Scored with a loop that stops one document short of the store's end.
ScoredDropLast(docs, queryEmbedding) ==
  [i \in 1..(Len(docs) - 1) |->
     [content |-> docs[i].content,
      score   |-> cosineSimilarity(queryEmbedding, docs[i].embedding)]]

\* map(doc => ({content, score})) over the store as it is at this moment
Scored(docs, queryEmbedding) ==
  [i \in 1..Len(docs) |->
     [content |-> docs[i].content,
      score   |-> cosineSimilarity(queryEmbedding, docs[i].embedding)]]

\* Array.prototype.sort as Node.js runs it (V8's TimSort) on an array shorter
\* than 64, which is sorted as one run: the longest run at the start of the
\* array is counted, ascending (each element not before its predecessor) or
\* strictly descending, a descending run is reversed, and every later
\* element is put in place by binary insertion.  The comparator is called as
\* written, so its NaN results (read as 0) steer the search like any other.
RECURSIVE RunEnd(_, _, _)
RunEnd(arr, idx, descending) ==
  IF idx = Len(arr) THEN idx
  ELSE LET order == CompareScore(arr[idx + 1], arr[idx])
       IN  IF descending
           THEN IF order >= 0 THEN idx ELSE RunEnd(arr, idx + 1, descending)
           ELSE IF order < 0 THEN idx ELSE RunEnd(arr, idx + 1, descending)

Reverse(arr) == [i \in 1..Len(arr) |-> arr[Len(arr) + 1 - i]]

\* The array with its first run made ascending, and the length of that run.
CountAndMakeRun(arr) ==
  LET descending == CompareScore(arr[2], arr[1]) < 0
      runLength  == RunEnd(arr, 2, descending)
  IN  [run |-> runLength,
       arr |-> IF descending
               THEN Reverse(SubSeq(arr, 1, runLength))
                      \o SubSeq(arr, runLength + 1, Len(arr))
               ELSE arr]

\* Where the pivot belongs among arr[left .. right - 1].
RECURSIVE InsertionPoint(_, _, _, _)
InsertionPoint(arr, pivot, left, right) ==
  IF left >= right THEN left
  ELSE LET mid == left + ((right - left) \div 2)
       IN  IF CompareScore(pivot, arr[mid]) < 0
           THEN InsertionPoint(arr, pivot, left, mid)
           ELSE InsertionPoint(arr, pivot, mid + 1, right)

\* arr[1 .. start - 1] is in place; arr[start ..] is inserted one by one.
RECURSIVE BinaryInsertionSort(_, _)
BinaryInsertionSort(arr, start) ==
  IF start > Len(arr) THEN arr
  ELSE LET pivot == arr[start]
           at    == InsertionPoint(arr, pivot, 1, start)
       IN  BinaryInsertionSort(
             SubSeq(arr, 1, at - 1) \o <<pivot>> \o SubSeq(arr, at, start - 1)
               \o SubSeq(arr, start + 1, Len(arr)),
             start + 1)

\* scored.sort((a, b) => b.score - a.score)
SortByScore(arr) ==
  IF Len(arr) < 2 THEN arr
  ELSE LET made == CountAndMakeRun(arr)
       IN  BinaryInsertionSort(made.arr, made.run + 1)

\* ContextOf as a template of the first two candidates would build it,
\* `${sorted[0]?.content}\n${sorted[1]?.content}`: a missing candidate reads
\* "undefined".
ContextOfTemplate(sorted) ==
  LET at(i) == IF i <= Len(sorted) THEN sorted[i].content ELSE <<"u", "n", "d">>
  IN  at(1) \o <<NL>> \o at(2)

\* scored.slice(0, 2).map(d => d.content).join("\n")
ContextOf(sorted) ==
  LET top == Slice(sorted, 0, TopK)
  IN  Join([i \in 1..Len(top) |-> top[i].content], <<NL>>)

\* retrieveContext from the arrival of the query's embedding to its return.
retrieveContext(docs, queryEmbedding) ==
  ContextOf(SortByScore(Scored(docs, queryEmbedding)))

\* ------------------------------------------------------------- responses

NoBody == [kind |-> "none", text |-> ""]

\* An http response no handler has touched: no status line sent (0), nothing
\* written, not ended, its client connected.
NewRes ==
  [status |-> 0, contentType |-> "", body |-> NoBody, written |-> <<>>,
   ends |-> 0, destroyed |-> FALSE, dropped |-> 0, lateWrite |-> FALSE]

\* res.status(code).json(body): the status line, the JSON body, the end.
ResJson(rs, code, body) ==
  [rs EXCEPT !.status = code, !.contentType = "application/json",
             !.body = body, !.ends = @ + 1]

\* res.write(token): flushes the headers with the default status 200 and the
\* token after them.  After res.end() it is a write after the end; on a
\* response whose client is gone the token is dropped (write returns false
\* and does not throw).
ResWrite(rs, token) ==
  IF rs.ends > 0 THEN [rs EXCEPT !.lateWrite = TRUE]
  ELSE IF rs.destroyed THEN [rs EXCEPT !.dropped = @ + 1]
  ELSE [rs EXCEPT !.status = IF @ = 0 THEN 200 ELSE @,
                  !.written = Append(@, token)]

\* res.end()
ResEnd(rs) ==
  [rs EXCEPT !.status = IF @ = 0 THEN 200 ELSE @, !.ends = @ + 1]

\* The bytes of a streamed response: the written tokens, concatenated.
RECURSIVE Concat(_)
Concat(parts) ==
  IF Len(parts) = 0 THEN <<>> ELSE parts[1] \o Concat(Tail(parts))

\* ---------------------------------------------------------------- inputs

Undefined == [type |-> "undefined", num |-> 0, text |-> <<>>]

Str(t) == [type |-> "string", num |-> 0, text |-> t]

\* The "message" fields a request body may carry.
MessageInputs ==
  { Undefined, [type |-> "number", num |-> 7, text |-> <<>>],
    Str(<<>>), Str(<<" ">>), Str(<<"q">>), Str(<<"p", " ">>) }

\* JavaScript truthiness of a value: undefined, 0 and "" are falsy
Truthy(v) ==
  CASE v.type = "undefined" -> FALSE
    [] v.type = "number"    -> v.num # 0
    [] OTHER                -> Len(v.text) > 0

\* validateChatInput: the error of its 400 answer, or "" when it calls next()
validateChatInput(message) ==
  IF ~Truthy(message) THEN "Message field is required"
  ELSE IF message.type # "string" THEN "Message must be a string"
  ELSE IF Len(Trim(message.text)) = 0 THEN "Message cannot be empty"
  ELSE ""

\* What chunk.choices[0]?.delta?.content evaluates to on a chunk of the
\* remote stream: undefined, or a string that may be empty.
ChunkContents ==
  { Undefined, Str(<<>>), Str(<<"T">>), Str(<<" ", "4">>) }

\* The replies of the remote completion (choices[0].message.content).
Replies == { "4" }

\* ----------------------------------------------------------------- state

VARIABLES
  documents,       \* the store: a sequence of [content, embedding]
  seedPc,          \* seedDocuments: "awaiting" an embedding, "done", "rejected"
  seedIdx,         \* the index in texts of the text being embedded
  alive,           \* the process runs
  streamHandlers,  \* how many times app.post("/chat-stream", ...) has run
  route,           \* per request: "none" before it arrives, "chat", "stream"
  msg,             \* per request: the message field of its body
  pc,              \* per request: where its handler is suspended
  queryEmbedding,  \* per request: the embedding of its message, once it
                   \* has arrived (<<>> before)
  scoredOver,      \* per request: the store's length when it was scored, -1
                   \* before
  context,         \* per request: what retrieveContext returned
  sent,            \* per request: the messages of its completion call
  res,             \* per request: its response
  emitted,         \* per request: the chunk contents its remote stream emitted
  remote,          \* per request: its call of the remote capability: "none",
                   \* "pending", "open" (a stream that emits), "closed" (it
                   \* answered, or the stream signalled completion),
                   \* "failed", "silent" (a stream that emits no more)
  query,           \* a retrieval on its own: the embedding of its query
  result,          \* a retrieval on its own: what retrieveContext returned
  simArgs,         \* a similarity on its own: the vectors a and b
  sim              \* a similarity on its own: how cosineSimilarity ended

vars ==
  << documents, seedPc, seedIdx, alive, streamHandlers, route, msg, pc,
     queryEmbedding, scoredOver, context, sent, res, emitted, remote, query,
     result, simArgs, sim >>

storeVars == << documents, seedPc, seedIdx >>

\* The variables of a similarity taken on its own (SimSpec).
simVars == << simArgs, sim >>

\* The variables of a retrieval and of a similarity taken on their own
\* (RankSpec, SimSpec); the server's actions leave them alone.
rankVars == << query, result, simVars >>

NoResult == [returned |-> FALSE, context |-> <<>>]

\* cosineSimilarity has not been called.
NoSim == [returned |-> FALSE, threw |-> "", value |-> NaN]

NoArgs == << <<>>, <<>> >>

\* No call of the completion capability: made tells whether the request has
\* called it, calls how many times.
NoCall == [system |-> <<>>, user |-> <<>>, made |-> FALSE, calls |-> 0]

\* The module's top-level code has run: seedDocuments() was called and is
\* suspended at its first await, the store is empty, the routes /health and
\* /chat are registered and the server listens.
Init ==
  /\ documents = <<>>
  /\ seedPc = "awaiting"
  /\ seedIdx = 1
  /\ alive = TRUE
  /\ streamHandlers = 0
  /\ route = [r \in Reqs |-> "none"]
  /\ msg = [r \in Reqs |-> Undefined]
  /\ pc = [r \in Reqs |-> "idle"]
  /\ queryEmbedding = [r \in Reqs |-> <<>>]
  /\ scoredOver = [r \in Reqs |-> -1]
  /\ context = [r \in Reqs |-> <<>>]
  /\ sent = [r \in Reqs |-> NoCall]
  /\ res = [r \in Reqs |-> NewRes]
  /\ emitted = [r \in Reqs |-> <<>>]
  /\ remote = [r \in Reqs |-> "none"]
  /\ query = <<>>
  /\ result = NoResult
  /\ simArgs = NoArgs
  /\ sim = NoSim

\* --------------------------------------------------------------- seeding

\* SeedEmbedded with documents.unshift in place of documents.push.
SeedEmbeddedUnshift(v) ==
  /\ alive
  /\ seedPc = "awaiting"
  /\ documents' = << [content |-> texts[seedIdx], embedding |-> v] >>
                     \o documents
  /\ IF seedIdx < Len(texts)
     THEN seedIdx' = seedIdx + 1 /\ seedPc' = seedPc
     ELSE seedIdx' = seedIdx /\ seedPc' = "done"
  /\ UNCHANGED << rankVars, alive, streamHandlers, route, msg, pc,
                  queryEmbedding, scoredOver, context, sent, res, emitted,
                  remote >>

\* The embedding of texts[seedIdx] arrives: the document is pushed (the
\* argument of push is complete before push runs), and the loop either calls
\* embedText for the next text or ends.
SeedEmbedded(v) ==
  /\ alive
  /\ seedPc = "awaiting"
  /\ documents' = Append(documents,
                         [content |-> texts[seedIdx], embedding |-> v])
  /\ IF seedIdx < Len(texts)
     THEN seedIdx' = seedIdx + 1 /\ seedPc' = seedPc
     ELSE seedIdx' = seedIdx /\ seedPc' = "done"
  /\ UNCHANGED << rankVars, alive, streamHandlers, route, msg, pc,
                  queryEmbedding, scoredOver, context, sent, res, emitted,
                  remote >>

\* The embedding call of texts[seedIdx] fails: seedDocuments() rejects and
\* nothing handles the rejection (line 58 neither awaits nor catches).  The
\* runtime then ends the process or only warns, by its unhandled-rejections
\* mode.
SeedEmbedFailed ==
  /\ alive
  /\ seedPc = "awaiting"
  /\ seedPc' = "rejected"
  /\ alive' \in BOOLEAN
  /\ UNCHANGED << rankVars, documents, seedIdx, streamHandlers, route, msg,
                  pc, queryEmbedding, scoredOver, context, sent, res, emitted,
                  remote >>

\* ------------------------------------------------------------------ /chat

\* Requests are numbered in the order they arrive.
Arrives(r) ==
  /\ alive
  /\ pc[r] = "idle"
  /\ IF r = 1 THEN TRUE ELSE pc[r - 1] # "idle"

\* POST /chat arrives: validateChatInput answers 400, or the handler runs to
\* its first await, inside retrieveContext, on embedText(message).
ChatArrives(r, m) ==
  /\ Arrives(r)
  /\ route' = [route EXCEPT ![r] = "chat"]
  /\ msg' = [msg EXCEPT ![r] = m]
  /\ IF validateChatInput(m) # ""
     THEN /\ res' = [res EXCEPT ![r] =
                       ResJson(@, 400, [kind |-> "error",
                                        text |-> validateChatInput(m)])]
          /\ pc' = [pc EXCEPT ![r] = "done"]
          /\ remote' = remote
     ELSE /\ res' = res
          /\ pc' = [pc EXCEPT ![r] = "embedding"]
          /\ remote' = [remote EXCEPT ![r] = "pending"]
  /\ UNCHANGED << rankVars, storeVars, alive, streamHandlers, queryEmbedding,
                  scoredOver, context, sent, emitted >>

\* ChatEmbedded with the message read from a variable the requests share,
\* which holds the message of the request that arrived last.
ChatEmbeddedSharedMessage(r, v) ==
  /\ alive
  /\ pc[r] = "embedding"
  /\ LET ctx  == retrieveContext(documents, v)
         last == CHOOSE q \in Reqs :
                   /\ pc[q] # "idle"
                   /\ \A p \in Reqs : pc[p] # "idle" => p <= q
     IN  /\ context' = [context EXCEPT ![r] = ctx]
         /\ sent' = [sent EXCEPT ![r] =
                       [system |-> Instruction \o ctx, user |-> msg[last].text,
                        made |-> TRUE, calls |-> 1]]
  /\ queryEmbedding' = [queryEmbedding EXCEPT ![r] = v]
  /\ scoredOver' = [scoredOver EXCEPT ![r] = Len(documents)]
  /\ pc' = [pc EXCEPT ![r] = "completing"]
  /\ UNCHANGED << rankVars, storeVars, alive, streamHandlers, route, msg, res,
                  emitted, remote >>

\* ChatEmbedded with the store itself given its scores and sorted in place,
\* as documents.sort would do, in place of the array documents.map returns.
ChatEmbeddedSortsStore(r, v) ==
  /\ alive
  /\ pc[r] = "embedding"
  /\ LET ctx    == retrieveContext(documents, v)
         sorted == SortByScore(
                     [i \in 1..Len(documents) |->
                        [content   |-> documents[i].content,
                         embedding |-> documents[i].embedding,
                         score     |-> cosineSimilarity(
                                         v, documents[i].embedding)]])
     IN  /\ context' = [context EXCEPT ![r] = ctx]
         /\ sent' = [sent EXCEPT ![r] =
                       [system |-> Instruction \o ctx, user |-> msg[r].text,
                        made |-> TRUE, calls |-> 1]]
         /\ documents' = [i \in 1..Len(sorted) |->
                            [content   |-> sorted[i].content,
                             embedding |-> sorted[i].embedding]]
  /\ queryEmbedding' = [queryEmbedding EXCEPT ![r] = v]
  /\ scoredOver' = [scoredOver EXCEPT ![r] = Len(documents)]
  /\ pc' = [pc EXCEPT ![r] = "completing"]
  /\ UNCHANGED << rankVars, seedPc, seedIdx, alive, streamHandlers, route,
                  msg, res, emitted, remote >>

\* The query's embedding arrives: retrieveContext scores the store as it is
\* now, sorts, slices, joins and returns; the handler calls the completion
\* with the system and the user message and awaits it.
ChatEmbedded(r, v) ==
  /\ alive
  /\ pc[r] = "embedding"
  /\ LET ctx == retrieveContext(documents, v)
     IN  /\ context' = [context EXCEPT ![r] = ctx]
         /\ sent' = [sent EXCEPT ![r] =
                       [system |-> Instruction \o ctx, user |-> msg[r].text,
                        made |-> TRUE, calls |-> 1]]
  /\ queryEmbedding' = [queryEmbedding EXCEPT ![r] = v]
  /\ scoredOver' = [scoredOver EXCEPT ![r] = Len(documents)]
  /\ pc' = [pc EXCEPT ![r] = "completing"]
  /\ UNCHANGED << rankVars, storeVars, alive, streamHandlers, route, msg, res,
                  emitted, remote >>

\* ChatCallFailed without the handler's try and catch: no answer is sent and
\* the rejection of the handler is unhandled.
ChatCallFailedUncaught(r) ==
  /\ alive
  /\ pc[r] \in {"embedding", "completing"}
  /\ remote' = [remote EXCEPT ![r] = "failed"]
  /\ pc' = [pc EXCEPT ![r] = "done"]
  /\ alive' \in BOOLEAN
  /\ UNCHANGED << rankVars, storeVars, streamHandlers, route, msg,
                  queryEmbedding, scoredOver, context, sent, res, emitted >>

\* The embedding call or the completion call of the request fails: the
\* handler's catch answers 500.
ChatCallFailed(r) ==
  /\ alive
  /\ pc[r] \in {"embedding", "completing"}
  /\ remote' = [remote EXCEPT ![r] = "failed"]
  /\ res' = [res EXCEPT ![r] =
               ResJson(@, 500,
                       [kind |-> "error", text |-> "AI service failed"])]
  /\ pc' = [pc EXCEPT ![r] = "done"]
  /\ UNCHANGED << rankVars, storeVars, alive, streamHandlers, route, msg,
                  queryEmbedding, scoredOver, context, sent, emitted >>

\* ChatCompleted without the registration, as if app.post("/chat-stream",
\* ...) were no statement of the /chat handler.
ChatCompletedRegistersNothing(r, reply) ==
  /\ alive
  /\ pc[r] = "completing"
  /\ remote' = [remote EXCEPT ![r] = "closed"]
  /\ res' = [res EXCEPT ![r] =
               ResJson(@, 200, [kind |-> "reply", text |-> reply])]
  /\ pc' = [pc EXCEPT ![r] = "done"]
  /\ UNCHANGED << rankVars, storeVars, alive, streamHandlers, route, msg,
                  queryEmbedding, scoredOver, context, sent, emitted >>

\* The completion arrives: the handler registers a /chat-stream route (the
\* app.post of line 171 is a statement of this handler) and answers the reply.
ChatCompleted(r, reply) ==
  /\ alive
  /\ pc[r] = "completing"
  /\ remote' = [remote EXCEPT ![r] = "closed"]
  /\ streamHandlers' = streamHandlers + 1
  /\ res' = [res EXCEPT ![r] =
               ResJson(@, 200, [kind |-> "reply", text |-> reply])]
  /\ pc' = [pc EXCEPT ![r] = "done"]
  /\ UNCHANGED << rankVars, storeVars, alive, route, msg, queryEmbedding,
                  scoredOver, context, sent, emitted >>

\* ----------------------------------------------------------- /chat-stream

\* HandlersRun with every registered route run on the request, as if each
\* handler ended with next().
HandlersRunAll(registered) == registered

\* How many of the registered /chat-stream routes run on one request.  The
\* router gives the request to the first route that matches; a later route
\* runs only if the earlier one calls next(), and the handler of lines
\* 171-202 takes no next and calls none.
HandlersRun(registered) == IF registered = 0 THEN 0 ELSE 1

\* POST /chat-stream arrives.  With no route registered yet the framework
\* answers 404.  Otherwise the first registered route takes it (its handler
\* never calls next(), so no later one runs): validateChatInput answers 400,
\* or the handler sets the headers and awaits the creation of the stream.
StreamArrives(r, m) ==
  /\ Arrives(r)
  /\ route' = [route EXCEPT ![r] = "stream"]
  /\ msg' = [msg EXCEPT ![r] = m]
  /\ IF HandlersRun(streamHandlers) = 0
     THEN /\ res' = [res EXCEPT ![r] =
                       [ResEnd(@) EXCEPT !.status = 404,
                                         !.contentType = "text/html"]]
          /\ pc' = [pc EXCEPT ![r] = "done"]
          /\ UNCHANGED << sent, remote >>
     ELSE IF validateChatInput(m) # ""
     THEN /\ res' = [res EXCEPT ![r] =
                       ResJson(@, 400, [kind |-> "error",
                                        text |-> validateChatInput(m)])]
          /\ pc' = [pc EXCEPT ![r] = "done"]
          /\ UNCHANGED << sent, remote >>
     ELSE /\ res' = [res EXCEPT ![r].contentType = "text/event-stream"]
          /\ pc' = [pc EXCEPT ![r] = "opening"]
          /\ sent' = [sent EXCEPT ![r] =
                        [system |-> StreamInstruction, user |-> m.text,
                         made |-> TRUE,
                         calls |-> HandlersRun(streamHandlers)]]
          /\ remote' = [remote EXCEPT ![r] = "pending"]
  /\ UNCHANGED << rankVars, storeVars, alive, streamHandlers, queryEmbedding,
                  scoredOver, context, emitted >>

\* The remote stream is created: the for await loop asks for its first chunk.
StreamOpened(r) ==
  /\ alive
  /\ pc[r] = "opening"
  /\ remote' = [remote EXCEPT ![r] = "open"]
  /\ pc' = [pc EXCEPT ![r] = "streaming"]
  /\ UNCHANGED << rankVars, storeVars, alive, streamHandlers, route, msg,
                  queryEmbedding, scoredOver, context, sent, res, emitted >>

\* StreamChunk without the test of the token, as res.write(String(token)).
StreamChunkUnguarded(r, c) ==
  /\ alive
  /\ pc[r] = "streaming"
  /\ Len(emitted[r]) < MaxChunks
  /\ emitted' = [emitted EXCEPT ![r] = Append(@, c)]
  /\ res' = [res EXCEPT ![r] =
               ResWrite(@, IF c.type = "undefined" THEN <<"u", "n", "d">>
                           ELSE c.text)]
  /\ UNCHANGED << rankVars, storeVars, alive, streamHandlers, route, msg, pc,
                  queryEmbedding, scoredOver, context, sent, remote >>

\* A chunk arrives: its token is written if it is truthy, and the loop asks
\* for the next chunk.
StreamChunk(r, c) ==
  /\ alive
  /\ pc[r] = "streaming"
  /\ Len(emitted[r]) < MaxChunks
  /\ emitted' = [emitted EXCEPT ![r] = Append(@, c)]
  /\ res' = [res EXCEPT ![r] = IF Truthy(c) THEN ResWrite(@, c.text) ELSE @]
  /\ UNCHANGED << rankVars, storeVars, alive, streamHandlers, route, msg, pc,
                  queryEmbedding, scoredOver, context, sent, remote >>

\* The remote stream signals completion: the loop ends and res.end() runs.
StreamFinished(r) ==
  /\ alive
  /\ pc[r] = "streaming"
  /\ remote' = [remote EXCEPT ![r] = "closed"]
  /\ res' = [res EXCEPT ![r] = ResEnd(@)]
  /\ pc' = [pc EXCEPT ![r] = "done"]
  /\ UNCHANGED << rankVars, storeVars, alive, streamHandlers, route, msg,
                  queryEmbedding, scoredOver, context, sent, emitted >>

\* StreamFailed with the catch of the /chat handler: it answers 500.
StreamFailedAnswers500(r) ==
  /\ alive
  /\ pc[r] \in {"opening", "streaming"}
  /\ remote' = [remote EXCEPT ![r] = "failed"]
  /\ res' = [res EXCEPT ![r] =
               ResJson(@, 500,
                       [kind |-> "error", text |-> "AI service failed"])]
  /\ pc' = [pc EXCEPT ![r] = "done"]
  /\ UNCHANGED << rankVars, storeVars, alive, streamHandlers, route, msg,
                  queryEmbedding, scoredOver, context, sent, emitted >>

\* The creation of the stream fails, or the stream fails while the loop
\* awaits a chunk: the catch logs the error and runs res.end().
StreamFailed(r) ==
  /\ alive
  /\ pc[r] \in {"opening", "streaming"}
  /\ remote' = [remote EXCEPT ![r] = "failed"]
  /\ res' = [res EXCEPT ![r] = ResEnd(@)]
  /\ pc' = [pc EXCEPT ![r] = "done"]
  /\ UNCHANGED << rankVars, storeVars, alive, streamHandlers, route, msg,
                  queryEmbedding, scoredOver, context, sent, emitted >>

\* The remote stream goes silent: it emits no further chunk, does not signal
\* completion and does not fail.  The source passes no timeout to the client
\* and arms no timer, and nothing bounds the wait of the for await loop for
\* the next chunk of a stream already created: the handler stays suspended
\* at line 188.
StreamStalls(r) ==
  /\ alive
  /\ pc[r] = "streaming"
  /\ remote' = [remote EXCEPT ![r] = "silent"]
  /\ pc' = [pc EXCEPT ![r] = "stalled"]
  /\ UNCHANGED << rankVars, storeVars, alive, streamHandlers, route, msg,
                  queryEmbedding, scoredOver, context, sent, res, emitted >>

\* The consumer of a /chat-stream response goes away while the handler is
\* suspended.  The handler listens to no "close" event: nothing of it runs,
\* and the remote stream stays as it is.
ClientDisconnects(r) ==
  /\ alive
  /\ pc[r] \in {"opening", "streaming", "stalled"}
  /\ ~res[r].destroyed
  /\ res' = [res EXCEPT ![r].destroyed = TRUE]
  /\ UNCHANGED << rankVars, storeVars, alive, streamHandlers, route, msg, pc,
                  queryEmbedding, scoredOver, context, sent, emitted,
                  remote >>

\* ------------------------------------------------- a retrieval on its own

\* Largest absolute value of a coordinate of the embeddings RankSpec draws.
MaxCoord == 1

\* Embeddings of one dimensionality with small integer coordinates.  Up to
\* coordinates of 2 two scores of one query are equal as reals only when
\* the doubles are equal too (the operands are the same or differ by exact
\* factors of 2), so the real order below is the order of the doubles.
RankVectors == [1..2 -> (0 - MaxCoord)..MaxCoord]

\* The stores seeding can have built when a query is scored: the first n
\* texts, each with the embedding the capability answered.
RankStores ==
  UNION { { [i \in 1..n |-> [content |-> texts[i], embedding |-> e[i]]] :
              e \in [1..n -> RankVectors] } : n \in 0..Len(texts) }

RankInit ==
  /\ documents \in RankStores
  /\ seedPc = IF Len(documents) = Len(texts) THEN "done" ELSE "awaiting"
  /\ seedIdx = IF Len(documents) = Len(texts) THEN Len(texts)
               ELSE Len(documents) + 1
  /\ alive = TRUE
  /\ streamHandlers = 0
  /\ route = [r \in Reqs |-> "none"]
  /\ msg = [r \in Reqs |-> Undefined]
  /\ pc = [r \in Reqs |-> "idle"]
  /\ queryEmbedding = [r \in Reqs |-> <<>>]
  /\ scoredOver = [r \in Reqs |-> -1]
  /\ context = [r \in Reqs |-> <<>>]
  /\ sent = [r \in Reqs |-> NoCall]
  /\ res = [r \in Reqs |-> NewRes]
  /\ emitted = [r \in Reqs |-> <<>>]
  /\ remote = [r \in Reqs |-> "none"]
  /\ query \in RankVectors
  /\ result = NoResult
  /\ simArgs = NoArgs
  /\ sim = NoSim

\* retrieveContext is run on the drawn store and query embedding.
Retrieve ==
  /\ ~result.returned
  /\ result' = [returned |-> TRUE,
                context  |-> retrieveContext(documents, query)]
  /\ UNCHANGED << storeVars, alive, streamHandlers, route, msg, pc,
                  queryEmbedding, scoredOver, context, sent, res, emitted,
                  remote, query, simVars >>

\* ----------------------------------------------- a similarity on its own

\* Largest length of the vectors SimSpec draws.
MaxDim == 2

\* Vectors of every length up to MaxDim, the empty vector included, with
\* small integer coordinates.
SimVectors ==
  UNION { [1..n -> (0 - MaxCoord)..MaxCoord] : n \in 0..MaxDim }

SimInit ==
  /\ documents = <<>>
  /\ seedPc = "awaiting"
  /\ seedIdx = 1
  /\ alive = TRUE
  /\ streamHandlers = 0
  /\ route = [r \in Reqs |-> "none"]
  /\ msg = [r \in Reqs |-> Undefined]
  /\ pc = [r \in Reqs |-> "idle"]
  /\ queryEmbedding = [r \in Reqs |-> <<>>]
  /\ scoredOver = [r \in Reqs |-> -1]
  /\ context = [r \in Reqs |-> <<>>]
  /\ sent = [r \in Reqs |-> NoCall]
  /\ res = [r \in Reqs |-> NewRes]
  /\ emitted = [r \in Reqs |-> <<>>]
  /\ remote = [r \in Reqs |-> "none"]
  /\ query = <<>>
  /\ result = NoResult
  /\ simArgs \in SimVectors \X SimVectors
  /\ sim = NoSim

\* cosineSimilarity(a, b) is called on the drawn vectors.  The function has
\* no throw statement and indexes arrays only, so it returns on every input.
Similarity ==
  /\ ~sim.returned
  /\ sim' = [returned |-> TRUE, threw |-> "",
             value |-> cosineSimilarity(simArgs[1], simArgs[2])]
  /\ UNCHANGED << storeVars, alive, streamHandlers, route, msg, pc,
                  queryEmbedding, scoredOver, context, sent, res, emitted,
                  remote, query, result, simArgs >>

\* ---------------------------------------------------------- specification

SeedNext ==
  \/ \E v \in Vectors : SeedEmbedded(v)
  \/ SeedEmbedFailed

ChatNext ==
  \/ \E r \in Reqs, m \in MessageInputs : ChatArrives(r, m)
  \/ \E r \in Reqs, v \in Vectors : ChatEmbedded(r, v)
  \/ \E r \in Reqs : ChatCallFailed(r)
  \/ \E r \in Reqs, reply \in Replies : ChatCompleted(r, reply)

StreamStep(r) ==
  \/ \E m \in MessageInputs : StreamArrives(r, m)
  \/ StreamOpened(r)
  \/ \E c \in ChunkContents : StreamChunk(r, c)
  \/ StreamFinished(r)
  \/ StreamFailed(r)
  \/ StreamStalls(r)
  \/ ClientDisconnects(r)

\* The steps the /chat-stream handler takes when the remote capability
\* answers it.
StreamContinues(r) ==
  \/ StreamOpened(r)
  \/ \E c \in ChunkContents : StreamChunk(r, c)
  \/ StreamFinished(r)
  \/ StreamFailed(r)

Next ==
  \/ SeedNext
  \/ ChatNext
  \/ \E r \in Reqs : StreamStep(r)

\* The whole server: seeding, /chat and /chat-stream requests interleaved.
Spec == Init /\ [][Next]_vars

\* The server while its clients send /chat requests only.
ChatSpec == Init /\ [][SeedNext \/ ChatNext]_vars

\* The server after seeding, when some number of /chat requests have been
\* answered (each registered a /chat-stream route) and are gone.
StreamInit ==
  /\ documents = [i \in 1..Len(texts) |->
                    [content |-> texts[i], embedding |-> <<1, 0>>]]
  /\ seedPc = "done"
  /\ seedIdx = Len(texts)
  /\ alive = TRUE
  /\ streamHandlers \in 0..2
  /\ route = [r \in Reqs |-> "none"]
  /\ msg = [r \in Reqs |-> Undefined]
  /\ pc = [r \in Reqs |-> "idle"]
  /\ queryEmbedding = [r \in Reqs |-> <<>>]
  /\ scoredOver = [r \in Reqs |-> -1]
  /\ context = [r \in Reqs |-> <<>>]
  /\ sent = [r \in Reqs |-> NoCall]
  /\ res = [r \in Reqs |-> NewRes]
  /\ emitted = [r \in Reqs |-> <<>>]
  /\ remote = [r \in Reqs |-> "none"]
  /\ query = <<>>
  /\ result = NoResult
  /\ simArgs = NoArgs
  /\ sim = NoSim

\* One /chat-stream request sent to that server.
StreamSpec == StreamInit /\ [][StreamStep(1)]_vars

\* The same, with the scheduling of the event loop: a handler whose awaited
\* promise can settle is resumed, so a remote capability that has not gone
\* silent is answered to in the end.
StreamLiveSpec == StreamSpec /\ WF_vars(StreamContinues(1))

\* The server after seeding, before any /chat request was answered.
RouteInit == StreamInit /\ streamHandlers = 0

\* /chat and /chat-stream requests interleaved on that server, the remote
\* streams completing or failing without a chunk.
RouteNext ==
  \/ ChatNext
  \/ \E r \in Reqs, m \in MessageInputs : StreamArrives(r, m)
  \/ \E r \in Reqs : StreamOpened(r)
  \/ \E r \in Reqs : StreamFinished(r)
  \/ \E r \in Reqs : StreamFailed(r)

RouteSpec == RouteInit /\ [][RouteNext]_vars

\* retrieveContext applied to every store and query embedding of RankInit.
RankSpec == RankInit /\ [][Retrieve]_vars

\* cosineSimilarity applied to every pair of vectors of SimInit.
SimSpec == SimInit /\ [][Similarity]_vars

\* ------------------------------------------------- what the claims speak of

Min(a, b) == IF a < b THEN a ELSE b

\* The texts a context holds: it is cut at every line break.
RECURSIVE LinesFrom(_, _)
LinesFrom(s, cur) ==
  IF Len(s) = 0 THEN <<cur>>
  ELSE IF Head(s) = NL THEN <<cur>> \o LinesFrom(Tail(s), <<>>)
  ELSE LinesFrom(Tail(s), Append(cur, Head(s)))

Lines(s) == IF Len(s) = 0 THEN <<>> ELSE LinesFrom(s, <<>>)

\* x = y on numbers; false when either is NaN
NumEq(x, y) ==
  /\ ~x.nan
  /\ ~y.nan
  /\ SgnSq(x.num) * y.den = SgnSq(y.num) * x.den

\* Document i ranks before document j: its score is not lower, and with an
\* equal score it stands earlier in the store.
RanksBefore(i, j, sc) ==
  /\ i # j
  /\ ~NumLess(sc[i].score, sc[j].score)
  /\ NumEq(sc[i].score, sc[j].score) => i < j

\* The sum of the squares of a vector's coordinates.
SquaredNorm(v) == SumTo([i \in 1..Len(v) |-> v[i] * v[i]], Len(v))

\* The tokens among the chunk contents a stream has emitted, in order.
TokensOf(chunks) ==
  LET kept == SelectSeq(chunks, Truthy)
  IN  [i \in 1..Len(kept) |-> kept[i].text]

\* The text of every chunk content, an undefined one counting as empty.
TextsOf(chunks) == [i \in 1..Len(chunks) |-> chunks[i].text]

\* C1: whatever the interleaving of seeding and /chat requests, a retrieval
\* that scored the store when it held n documents (n = 0, 1, 2 or 3) returned
\* a context made of min(n, 2) different texts, all of them among the n
\* documents the store held then; the handler went on to the completion call
\* with that context, and an error answer comes only of a failed remote call.
C1_RetrievalOverPartialStore ==
  \A r \in Reqs :
    scoredOver[r] >= 0 =>
      LET n     == scoredOver[r]
          parts == Lines(context[r])
      IN  /\ n <= Len(documents)
          /\ Len(parts) = Min(n, TopK)
          /\ \A i \in 1..Len(parts) :
               \E j \in 1..n : documents[j].content = parts[i]
          /\ \A i, j \in 1..Len(parts) : i # j => parts[i] # parts[j]
          /\ sent[r].made
          /\ sent[r].system = Instruction \o context[r]
          /\ res[r].status = 500 => remote[r] = "failed"

\* C1's case: a request scored the store while it held two of the three
\* documents and seeding was still under way.
C1_Witness ==
  \E r \in Reqs :
    /\ scoredOver[r] = 2
    /\ Len(documents) = 2
    /\ seedPc = "awaiting"
    /\ Len(Lines(context[r])) = 2

\* C2: no /chat request is inside retrieveContext while seeding has not
\* completed, and every retrieval scores the fully seeded store.
C2_SeededBeforeRetrieval ==
  \A r \in Reqs :
    /\ pc[r] = "embedding" => seedPc = "done"
    /\ scoredOver[r] >= 0 => scoredOver[r] = Len(texts)

\* C3: once the consumer of a /chat-stream response is gone, the relay takes
\* no further chunk from the remote stream and attempts no further write.
C3_DisconnectStopsRelay ==
  [][\A r \in Reqs :
       res[r].destroyed =>
         /\ emitted'[r] = emitted[r]
         /\ res'[r].dropped = res[r].dropped]_vars

\* C4: the relay has passed to res.write exactly the tokens of the chunks
\* emitted so far, each once and in arrival order; when the remote stream has
\* signalled completion the response is ended exactly once with no write
\* after the end, and the body a connected consumer got is the concatenation
\* of the chunk contents.
C4_RelayForwardsInOrder ==
  \A r \in Reqs :
    route[r] = "stream" =>
      LET toks == TokensOf(emitted[r])
      IN  /\ Len(res[r].written) + res[r].dropped = Len(toks)
          /\ res[r].written = SubSeq(toks, 1, Len(res[r].written))
          /\ ~res[r].lateWrite
          /\ remote[r] = "closed" =>
               /\ res[r].ends = 1
               /\ res[r].status = 200
               /\ res[r].dropped = 0 =>
                    Concat(res[r].written) = Concat(TextsOf(emitted[r]))

\* C4's case: a stream emitted a token, a chunk without content and a second
\* token, then completed; the two tokens were forwarded in that order.
C4_Witness ==
  \E r \in Reqs :
    /\ remote[r] = "closed"
    /\ emitted[r] = << Str(<<"T">>), Undefined, Str(<<" ", "4">>) >>
    /\ res[r].written = << <<"T">>, <<" ", "4">> >>
    /\ res[r].ends = 1

\* C5: when the creation of the remote stream or the stream itself has
\* failed, the handler has finished, the response is ended exactly once with
\* the status 200 of a stream and no error body, nothing was written past the
\* tokens received before the failure, and the process runs on.
C5_StreamFailureEndsCleanly ==
  \A r \in Reqs :
    (route[r] = "stream" /\ remote[r] = "failed") =>
      /\ pc[r] = "done"
      /\ res[r].ends = 1
      /\ res[r].status = 200
      /\ res[r].body = NoBody
      /\ res[r].contentType = "text/event-stream"
      /\ ~res[r].lateWrite
      /\ Len(res[r].written) + res[r].dropped = Len(TokensOf(emitted[r]))
      /\ alive

\* C5's case: a stream failed after one token had been forwarded.
C5_Witness ==
  \E r \in Reqs :
    /\ route[r] = "stream"
    /\ remote[r] = "failed"
    /\ Len(emitted[r]) = 1
    /\ Len(res[r].written) = 1

\* C6: after the embedding of a seed text has failed, either start-up was
\* aborted and no request was served (fail-fast), or every text was still
\* tried and the store holds the texts that were embedded (partial store).
C6_SeedFailurePolicy ==
  seedPc = "rejected" =>
    \/ ~alive /\ \A r \in Reqs : res[r].ends = 0
    \/ alive /\ seedIdx = Len(texts) /\ Len(documents) = Len(texts) - 1

\* C7: a /chat request whose embedding or completion call failed has been
\* answered exactly once, with status 500 and the error "AI service failed",
\* and its failure did not end the process (only a rejected seeding can).
C7_ChatFailureAnswers500 ==
  \A r \in Reqs :
    (route[r] = "chat" /\ remote[r] = "failed") =>
      /\ pc[r] = "done"
      /\ res[r].status = 500
      /\ res[r].body = [kind |-> "error", text |-> "AI service failed"]
      /\ res[r].ends = 1
      /\ res[r].written = <<>>
      /\ seedPc # "rejected" => alive

\* C7's case: one request failed and was answered 500, and another request
\* of the same process was answered with a reply.
C7_Witness ==
  \E r, q \in Reqs :
    /\ route[r] = "chat"
    /\ remote[r] = "failed"
    /\ res[r].status = 500
    /\ route[q] = "chat"
    /\ res[q].status = 200

\* C8: the context retrieveContext returns holds min(n, 2) documents of the
\* store, each ranking before every one after it and before every document
\* left out (score descending, store order among equal scores), joined by
\* line breaks in that order.
C8_TopKByScoreStable ==
  result.returned =>
    LET n     == Len(documents)
        sc    == Scored(documents, query)
        parts == Lines(result.context)
    IN  /\ Len(parts) = Min(n, TopK)
        /\ \A i \in 1..Len(parts) :
             \E j \in 1..n : documents[j].content = parts[i]
        /\ LET idx == [i \in 1..Len(parts) |->
                         CHOOSE j \in 1..n : documents[j].content = parts[i]]
           IN  /\ \A a, b \in 1..Len(parts) :
                    a < b => RanksBefore(idx[a], idx[b], sc)
               /\ \A a \in 1..Len(parts), j \in 1..n :
                    (\A b \in 1..Len(parts) : idx[b] # j) =>
                      RanksBefore(idx[a], j, sc)

\* C9: a retrieval that scored an empty store returned the empty string, and
\* the handler went on to the completion call with the bare instruction; an
\* error answer comes only of a failed remote call.
C9_EmptyStoreEmptyContext ==
  \A r \in Reqs :
    scoredOver[r] = 0 =>
      /\ context[r] = <<>>
      /\ sent[r].made
      /\ sent[r].system = Instruction
      /\ res[r].status = 500 => remote[r] = "failed"

\* C9's case: a request scored the empty store and was answered with a reply.
C9_Witness ==
  \E r \in Reqs :
    /\ scoredOver[r] = 0
    /\ pc[r] = "done"
    /\ res[r].status = 200

\* C10: with fewer documents in the store than the 2 that are asked for, the
\* context holds every document of the store exactly once, in rank order.
C10_AllDocumentsWhenFewerThanK ==
  (result.returned /\ Len(documents) < TopK) =>
    LET n     == Len(documents)
        sc    == Scored(documents, query)
        parts == Lines(result.context)
    IN  /\ Len(parts) = n
        /\ \A j \in 1..n :
             Cardinality({i \in 1..Len(parts) :
                            parts[i] = documents[j].content}) = 1
        /\ \A a, b \in 1..Len(parts) :
             a < b =>
               \A i, j \in 1..n :
                 (/\ documents[i].content = parts[a]
                  /\ documents[j].content = parts[b])
                   => RanksBefore(i, j, sc)

\* C10's case: the store holds one document and the context is its text.
C10_Witness ==
  /\ result.returned
  /\ Len(documents) = 1
  /\ result.context = texts[1]

\* C11: called on two vectors of different lengths, in either order,
\* cosineSimilarity raises DimensionMismatchError and returns no number.
C11_MismatchRaises ==
  (sim.returned /\ Len(simArgs[1]) # Len(simArgs[2])) =>
    sim.threw = "DimensionMismatchError"

\* C12: called on two vectors of one length, cosineSimilarity returns a
\* real number in [-1, 1], and that number is 0 when either vector has zero
\* magnitude.
C12_ZeroMagnitudeScoresZero ==
  (sim.returned /\ Len(simArgs[1]) = Len(simArgs[2])) =>
    /\ sim.threw = ""
    /\ ~sim.value.nan
    /\ sim.value.num * sim.value.num <= sim.value.den
    /\ (SquaredNorm(simArgs[1]) = 0 \/ SquaredNorm(simArgs[2]) = 0) =>
         sim.value.num = 0

\* C13: called on two vectors of one length, cosineSimilarity(a, b) returns
\* a number equal to the one cosineSimilarity(b, a) returns.
C13_SimilaritySymmetric ==
  (sim.returned /\ Len(simArgs[1]) = Len(simArgs[2])) =>
    NumEq(sim.value, cosineSimilarity(simArgs[2], simArgs[1]))

\* C14: the store always holds the first n seed texts, in the order of the
\* seed list, for some n; and every step leaves the documents the store
\* already holds as they are and where they are, so the store only grows at
\* its end.
C14_StoreIsImmutablePrefix ==
  /\ [](/\ Len(documents) <= Len(texts)
        /\ \A i \in 1..Len(documents) : documents[i].content = texts[i])
  /\ [][/\ Len(documents') >= Len(documents)
        /\ SubSeq(documents', 1, Len(documents)) = documents]_vars

\* C14's case: seeding has pushed the three documents, and a request scored
\* the full store and was answered.
C14_Witness ==
  /\ Len(documents) = Len(texts)
  /\ seedPc = "done"
  /\ \E r \in Reqs : scoredOver[r] = Len(texts) /\ res[r].status = 200

\* C15: the completion call of a /chat request carries one system message,
\* the instruction followed by the context retrieved with the embedding of
\* that request's own message over the store as it was when that request
\* scored it, and one user message, that request's own message; this holds
\* for every request, whatever other requests are in flight.
C15_RequestLocalData ==
  \A r \in Reqs :
    (route[r] = "chat" /\ sent[r].made) =>
      LET own == retrieveContext(SubSeq(documents, 1, scoredOver[r]),
                                 queryEmbedding[r])
      IN  /\ context[r] = own
          /\ sent[r].system = Instruction \o own
          /\ sent[r].user = msg[r].text

\* C15's case: two requests await their completions at the same time, with
\* different messages, different query embeddings and different contexts.
C15_Witness ==
  \E r, q \in Reqs :
    /\ r # q
    /\ pc[r] = "completing"
    /\ pc[q] = "completing"
    /\ msg[r] # msg[q]
    /\ queryEmbedding[r] # queryEmbedding[q]
    /\ context[r] # context[q]

\* C17: the step in which a request's retrieval runs (or its embedding call
\* fails) leaves the store as it was: the same documents, in the same order,
\* with the same embeddings.
C17_RetrievalLeavesStore ==
  [][\A r \in Reqs :
       (pc[r] = "embedding" /\ pc'[r] # "embedding") =>
         documents' = documents]_vars

\* C17's case: a retrieval over the full store ranked the second document
\* before the first, and the store still holds the texts in seed order.
C17_Witness ==
  \E r \in Reqs :
    /\ scoredOver[r] = Len(texts)
    /\ context[r] = texts[2] \o <<NL>> \o texts[1]
    /\ \A i \in 1..Len(texts) : documents[i].content = texts[i]

\* C16: every request that has called the remote capability gets its
\* response ended in the end, whatever the remote capability does: a call
\* that is never answered fails after a bounded wait.
C16_BoundedWait ==
  \A r \in Reqs : (remote[r] = "pending") ~> (res[r].ends > 0)

\* C19: a /chat-stream request that was given to the streaming relay made
\* exactly one call of the remote capability, however many routes are
\* registered; every token emitted so far was passed to res.write once, in
\* order, and the response is ended at most once, exactly once when the
\* handler has finished.
C19_OneHandlerPerStreamRequest ==
  \A r \in Reqs :
    (route[r] = "stream" /\ sent[r].made) =>
      LET toks == TokensOf(emitted[r])
      IN  /\ sent[r].calls = 1
          /\ Len(res[r].written) + res[r].dropped = Len(toks)
          /\ \A i \in 1..Len(res[r].written) : res[r].written[i] = toks[i]
          /\ res[r].ends <= 1
          /\ pc[r] = "done" => res[r].ends = 1

\* C19's case: two routes are registered, and a request's stream emitted the
\* same token twice and completed; the response got the token twice, not
\* four times, and was ended once.
C19_Witness ==
  \E r \in Reqs :
    /\ streamHandlers = 2
    /\ pc[r] = "done"
    /\ remote[r] = "closed"
    /\ emitted[r] = << Str(<<"T">>), Str(<<"T">>) >>
    /\ res[r].written = << <<"T">>, <<"T">> >>
    /\ res[r].ends = 1

\* C18: the number of registered /chat-stream routes is always the number of
\* /chat requests whose completion call has succeeded, and a /chat-stream
\* request that arrives while none is registered is answered 404 and makes
\* no call of the remote capability.
C18_RegisteredInsideChat ==
  /\ [](streamHandlers =
          Cardinality({r \in Reqs : route[r] = "chat" /\ remote[r] = "closed"}))
  /\ [][\A r \in Reqs :
          (pc[r] = "idle" /\ route'[r] = "stream" /\ streamHandlers = 0) =>
            /\ res'[r].status = 404
            /\ res'[r].ends = 1
            /\ ~sent'[r].made
            /\ pc'[r] = "done"]_vars

\* C18's case: a /chat-stream request arrived first and was answered 404; a
\* /chat request then succeeded and registered the one route there is.
C18_Witness ==
  \E r, q \in Reqs :
    /\ route[r] = "stream"
    /\ res[r].status = 404
    /\ route[q] = "chat"
    /\ remote[q] = "closed"
    /\ streamHandlers = 1

====
